---- MODULE Spec2Model ----
(***************************************************************************)
(* Model of check_problems.py (class ProblemChecker): extraction of the    *)
(* problembox records of a chapter file, the report of their missing       *)
(* parts, and the three repair passes.                                     *)
(*                                                                         *)
(* A chapter file is a sequence of text pieces.  Every piece is the        *)
(* literal text it stands for, so Len(piece) is its length in characters   *)
(* and the 50-character look-behind/look-ahead of the Importance pass is   *)
(* computed on real lengths.  The markup the regular expressions search    *)
(* for is one piece each; "\qed" is also present split as "\q" + "ed", so  *)
(* that text joined by re.sub's deletions can form a new "\qed".           *)
(***************************************************************************)
EXTENDS Integers, Sequences, FiniteSets, TLC

VARIABLES files, out, prev

vars == <<files, out, prev>>

-----------------------------------------------------------------------------
(* The pieces of text.                                                     *)

BeginPB    == "\\begin{problembox}"
EndPB      == "\\end{problembox}"
Titles     == {"[A]", "[B]"}
Strategy   == "\\textbf{Strategy:}"
Solution   == "\\textbf{Solution:}"
Importance == "\\textbf{Importance:}"
OtherBold  == "\\textbf{Note:}"
BeginImp   == "\\begin{importance}"
EndImp     == "\\end{importance}"
Qed        == "\\qed"
QedHead    == "\\q"
QedTail    == "ed"
NL         == "\n"
Text       == "x"
LongText   == "yyyyyyyyyyyyyyyyyyyyyyyyyyyyyyyyyyyyyyyy"

\* the solution label in two parts, as it is spelled around other text
SolutionHead == "\\textbf{Solu"
SolutionTail == "tion:}"

\* match.group(1).strip() of a title piece
TitleOf(t) == IF t = "[A]" THEN "A" ELSE "B"

\* str.strip()/rstrip() remove whitespace; NL is the only whitespace piece
IsSpace(t) == t = NL

Min(S) == CHOOSE m \in S : \A n \in S : m <= n

\* content[a:b] on pieces a+1..b (Python slices never fail)
Slice(s, a, b) == IF a >= b THEN <<>> ELSE SubSeq(s, a + 1, b)

RECURSIVE CharLen(_)
CharLen(s) == IF s = <<>> THEN 0 ELSE Len(Head(s)) + CharLen(Tail(s))

\* re.search of the label t in s: the index of the piece at which its first
\* occurrence ends (the label itself, or the two parts of the solution label
\* next to each other), 0 when there is none
Search(t, s) ==
    LET S == {i \in 1..Len(s) :
                 \/ s[i] = t
                 \/ /\ t = Solution /\ i > 1
                    /\ s[i - 1] = SolutionHead /\ s[i] = SolutionTail}
    IN  IF S = {} THEN 0 ELSE Min(S)

RECURSIVE RStrip(_)
RStrip(s) ==
    IF s # <<>> /\ IsSpace(s[Len(s)]) THEN RStrip(Slice(s, 0, Len(s) - 1)) ELSE s

RECURSIVE LStrip(_)
LStrip(s) == IF s # <<>> /\ IsSpace(Head(s)) THEN LStrip(Tail(s)) ELSE s

Strip(s) == LStrip(RStrip(s))

-----------------------------------------------------------------------------
(* The regular expressions.                                                *)

\* A match of problembox_pattern can start at piece i: the begin marker, a
\* bracketed title right after it, and some end marker later on (DOTALL:
\* the lazy body runs over anything, other begin markers included).
MatchStartsAt(content, i) ==
    /\ i + 1 <= Len(content)
    /\ content[i] = BeginPB
    /\ content[i + 1] \in Titles
    /\ \E j \in (i + 2)..Len(content) : content[j] = EndPB

\* re.finditer(problembox_pattern, content, re.DOTALL) from piece pos on:
\* the non-overlapping matches left to right, each [start, end, title] with
\* end the index of its end marker (match.end() is the offset after it).
RECURSIVE problembox_matches(_, _)
problembox_matches(content, pos) ==
    LET S == {i \in pos..Len(content) : MatchStartsAt(content, i)}
    IN  IF S = {} THEN <<>>
        ELSE LET i == Min(S)
                 j == Min({k \in (i + 2)..Len(content) : content[k] = EndPB})
             IN  <<[start |-> i, end |-> j, title |-> TitleOf(content[i + 1])]>>
                 \o problembox_matches(content, j + 1)

\* The offset (in pieces) at which the text searched for a record ends:
\* the next begin marker after problembox_end, or the end of the file.
search_end(content, problembox_end) ==
    LET S == {k \in (problembox_end + 1)..Len(content) : content[k] = BeginPB}
    IN  IF S = {} THEN Len(content) ELSE Min(S) - 1

\* A variant of search_content that does not stop at the next begin marker
search_content_unbounded(content, problembox_end) ==
    Slice(content, problembox_end, Len(content))

\* search_content: remaining_content cut at the next begin marker
search_content(content, problembox_end) ==
    Slice(content, problembox_end, search_end(content, problembox_end))

\* re.finditer(r'\\qed', s): the occurrences left to right, each the span
\* [s, e] of the pieces that spell it ("\qed", or "\q" followed by "ed")
RECURSIVE qed_finditer(_, _)
qed_finditer(s, pos) ==
    IF pos > Len(s) THEN <<>>
    ELSE IF s[pos] = Qed
         THEN <<[s |-> pos, e |-> pos]>> \o qed_finditer(s, pos + 1)
    ELSE IF s[pos] = QedHead /\ pos + 1 <= Len(s) /\ s[pos + 1] = QedTail
         THEN <<[s |-> pos, e |-> pos + 1]>> \o qed_finditer(s, pos + 2)
    ELSE qed_finditer(s, pos + 1)

qed_matches(s) == qed_finditer(s, 1)

\* re.sub(r'\\qed', '', s): one pass, the text left of a removed occurrence
\* is not searched again
RECURSIVE qed_sub(_, _)
qed_sub(s, pos) ==
    IF pos > Len(s) THEN <<>>
    ELSE IF s[pos] = Qed THEN qed_sub(s, pos + 1)
    ELSE IF s[pos] = QedHead /\ pos + 1 <= Len(s) /\ s[pos + 1] = QedTail
         THEN qed_sub(s, pos + 2)
    ELSE <<s[pos]>> \o qed_sub(s, pos + 1)

-----------------------------------------------------------------------------
(* extract_problems and check_file.                                        *)

Issue(kind, count) == [kind |-> kind, count |-> count]

MissingStrategy     == Issue("Missing Strategy", 0)
MissingSolution     == Issue("Missing Solution", 0)
MissingQed          == Issue("Missing \\qed", 0)
MultipleQed(n)      == Issue("Multiple \\qed", n)
QedWithoutSolution(n) == Issue("\\qed without Solution", n)

\* A variant of extra_qed_issues that reports nothing for a closing marker
\* without a solution
extra_qed_issues_forgetful(sc) ==
    LET solution_match == Search(Solution, sc)
        qed_count == Len(qed_matches(Slice(sc, solution_match, Len(sc))))
    IN  IF solution_match = 0 THEN <<>>
        ELSE IF qed_count > 1 THEN <<MultipleQed(qed_count)>>
        ELSE IF qed_count = 0 THEN <<MissingQed>>
        ELSE <<>>

\* extra_qed_issues of one record, from the text searched for it
extra_qed_issues(sc) ==
    LET solution_match == Search(Solution, sc)
    IN  IF solution_match # 0
        THEN LET after_solution == Slice(sc, solution_match, Len(sc))
                 qed_count == Len(qed_matches(after_solution))
             IN  IF qed_count > 1 THEN <<MultipleQed(qed_count)>>
                 ELSE IF qed_count = 0 THEN <<MissingQed>>
                 ELSE <<>>
        ELSE LET n == Len(qed_matches(sc))
             IN  IF n > 0 THEN <<QedWithoutSolution(n)>> ELSE <<>>

\* The dictionary extract_problems appends for one match
problem_of(content, match) ==
    LET sc == search_content(content, match.end)
        solution_match == Search(Solution, sc)
        qed_count == IF solution_match # 0
                     THEN Len(qed_matches(Slice(sc, solution_match, Len(sc))))
                     ELSE 0
    IN  [title            |-> match.title,
         has_strategy     |-> Search(Strategy, sc) # 0,
         has_solution     |-> solution_match # 0,
         has_qed          |-> qed_count > 0,
         qed_count        |-> qed_count,
         extra_qed_issues |-> extra_qed_issues(sc)]

\* extract_problems(file_path), the file read without error
extract_problems(content) ==
    LET ms == problembox_matches(content, 1)
    IN  [k \in 1..Len(ms) |-> problem_of(content, ms[k])]

\* The offsets (piece indices in the file) of the strategy label, the
\* solution label and the closing markers extract_problems finds for a match
attributed(content, match) ==
    LET sc == search_content(content, match.end)
        st == Search(Strategy, sc)
        so == Search(Solution, sc)
        base == IF so # 0 THEN so ELSE 0
        qs == qed_matches(Slice(sc, base, Len(sc)))
    IN  {match.end + i : i \in {st, so} \ {0}}
        \cup {match.end + base + qs[k].s : k \in 1..Len(qs)}
        \cup {match.end + base + qs[k].e : k \in 1..Len(qs)}

\* The issues list check_file builds for one problem
issues_of(problem) ==
    (IF ~problem.has_strategy THEN <<MissingStrategy>> ELSE <<>>)
    \o (IF ~problem.has_solution THEN <<MissingSolution>> ELSE <<>>)
    \o (IF problem.has_solution /\ ~problem.has_qed THEN <<MissingQed>> ELSE <<>>)
    \o problem.extra_qed_issues

\* check_file: one entry per problem whose issues list is not empty
check_file(content) ==
    LET problems == extract_problems(content)
        all == [k \in 1..Len(problems) |->
                   [problem |-> problems[k].title, issues |-> issues_of(problems[k])]]
    IN  SelectSeq(all, LAMBDA e : e.issues # <<>>)

RECURSIVE SumSeq(_)
SumSeq(s) == IF s = <<>> THEN 0 ELSE Head(s) + SumSeq(Tail(s))

\* report mode of check_all_files: the counters of its summary
report_of(fs) ==
    LET per == [f \in 1..Len(fs) |-> check_file(fs[f])]
        cnt == [f \in 1..Len(fs) |->
                   SumSeq([k \in 1..Len(per[f]) |-> Len(per[f][k].issues)])]
    IN  [files_checked     |-> Len(fs),
         files_with_issues |-> Cardinality({f \in 1..Len(fs) : per[f] # <<>>}),
         total_issues      |-> SumSeq(cnt),
         file_issues       |-> per]

\* generate_detailed_report: is_qed_correct and the completeness test
is_complete(problem) ==
    LET has_extra_qed_issues == Len(problem.extra_qed_issues) > 0
        is_qed_correct ==
            \/ problem.has_solution /\ problem.has_qed /\ ~has_extra_qed_issues
            \/ ~problem.has_solution
    IN  problem.has_strategy /\ problem.has_solution /\ is_qed_correct

\* generate_detailed_report: the totals, and how the final line ends (the
\* percentage complete_problems/total_problems*100 divides by the total)
detailed_of(fs) ==
    LET per == [f \in 1..Len(fs) |-> extract_problems(fs[f])]
        total_problems == SumSeq([f \in 1..Len(fs) |-> Len(per[f])])
        complete_problems ==
            SumSeq([f \in 1..Len(fs) |->
                Cardinality({k \in 1..Len(per[f]) : is_complete(per[f][k])})])
    IN  [total_problems    |-> total_problems,
         complete_problems |-> complete_problems,
         result            |-> IF fs = <<>> THEN "no files"
                               ELSE IF total_problems = 0 THEN "ZeroDivisionError"
                               ELSE "printed"]

-----------------------------------------------------------------------------
(* The repair passes.  Each reads the file, finds the problembox matches   *)
(* once, and works through them last to first on the changing content.     *)
(* An accumulator holds the content, the count of fixes, and the offsets   *)
(* <<k, offset>> (pieces) of what its searches found for the k-th match.   *)

\* content with the pieces a+1..b replaced by mid
Splice(content, a, mid, b) ==
    Slice(content, 0, a) \o mid \o Slice(content, b, Len(content))

\* A variant of fix_missing_qed_one that does not look for a closing marker
\* before it adds one
fix_missing_qed_one_unchecked(acc, match, k) ==
    LET content == acc.content
        sc == search_content(content, match.end)
        solution_match == Search(Solution, sc)
        solution_content == RStrip(Slice(sc, solution_match, Len(sc)))
        solution_end_in_file == match.end + solution_match + Len(solution_content)
    IN  IF solution_match # 0 /\ solution_content # <<>>
        THEN [content |-> Splice(content, solution_end_in_file, <<Qed>>,
                                 solution_end_in_file),
              fixes   |-> acc.fixes + 1,
              seen    |-> acc.seen]
        ELSE acc

\* A variant of fix_missing_qed_one that adds the closing marker at the
\* untrimmed end of the text searched
fix_missing_qed_one_untrimmed(acc, match, k) ==
    LET content == acc.content
        sc == search_content(content, match.end)
        solution_match == Search(Solution, sc)
        after_solution == Slice(sc, solution_match, Len(sc))
        solution_end_in_file == match.end + Len(sc)
    IN  IF /\ solution_match # 0
           /\ qed_matches(after_solution) = <<>>
           /\ RStrip(after_solution) # <<>>
        THEN [content |-> Splice(content, solution_end_in_file, <<Qed>>,
                                 solution_end_in_file),
              fixes   |-> acc.fixes + 1,
              seen    |-> acc.seen]
        ELSE acc

\* fix_missing_qed: the body of the loop for one match
fix_missing_qed_one(acc, match, k) ==
    LET content == acc.content
        sc == search_content(content, match.end)
        solution_match == Search(Solution, sc)
        after_solution == Slice(sc, solution_match, Len(sc))
        qs == qed_matches(after_solution)
        solution_content == RStrip(after_solution)
        solution_start_in_file == match.end + solution_match
        solution_end_in_file == solution_start_in_file + Len(solution_content)
        seen == IF solution_match = 0 THEN {}
                ELSE {<<k, solution_start_in_file>>}
                     \cup {<<k, solution_start_in_file + qs[i].s>> : i \in 1..Len(qs)}
    IN  IF solution_match # 0 /\ qs = <<>> /\ solution_content # <<>>
        THEN [content |-> Splice(content, solution_end_in_file, <<Qed>>,
                                 solution_end_in_file),
              fixes   |-> acc.fixes + 1,
              seen    |-> acc.seen \cup seen]
        ELSE [acc EXCEPT !.seen = acc.seen \cup seen]

RECURSIVE fix_missing_qed_loop(_, _, _)
fix_missing_qed_loop(acc, ms, k) ==
    IF k = 0 THEN acc
    ELSE fix_missing_qed_loop(fix_missing_qed_one(acc, ms[k], k), ms, k - 1)

\* fix_missing_qed on the content read: the content to write and the count
fix_missing_qed(content) ==
    LET ms == problembox_matches(content, 1)
    IN  fix_missing_qed_loop([content |-> content, fixes |-> 0, seen |-> {}], ms, Len(ms))

\* fix_extra_qed: the body of the loop for one match
fix_extra_qed_one(acc, match, k) ==
    LET content == acc.content
        sc == search_content(content, match.end)
        solution_match == Search(Solution, sc)
    IN  IF solution_match # 0
        THEN LET after_solution == Slice(sc, solution_match, Len(sc))
                 qs == qed_matches(after_solution)
                 solution_start_in_file == match.end + solution_match
                 seen == {<<k, solution_start_in_file>>}
                         \cup {<<k, solution_start_in_file + qs[i].s>> : i \in 1..Len(qs)}
             IN  IF Len(qs) > 1
                 THEN LET first_qed_end == qs[1].e
                          content_to_fix ==
                              Slice(after_solution, first_qed_end, Len(after_solution))
                          fixed_content == qed_sub(content_to_fix, 1)
                          first_qed_end_in_file == solution_start_in_file + first_qed_end
                          content_end_in_file ==
                              solution_start_in_file + Len(after_solution)
                      IN  [content |-> Splice(content, first_qed_end_in_file,
                                              fixed_content, content_end_in_file),
                           fixes   |-> acc.fixes + (Len(qs) - 1),
                           seen    |-> acc.seen \cup seen]
                 ELSE [acc EXCEPT !.seen = acc.seen \cup seen]
        ELSE LET qs == qed_matches(sc)
                 seen == {<<k, match.end + qs[i].s>> : i \in 1..Len(qs)}
             IN  IF qs # <<>>
                 THEN LET fixed_content == qed_sub(sc, 1)
                          section_start_in_file == match.end
                          section_end_in_file == match.end + Len(sc)
                      IN  [content |-> Splice(content, section_start_in_file,
                                              fixed_content, section_end_in_file),
                           fixes   |-> acc.fixes + Len(qs),
                           seen    |-> acc.seen \cup seen]
                 ELSE acc

RECURSIVE fix_extra_qed_loop(_, _, _)
fix_extra_qed_loop(acc, ms, k) ==
    IF k = 0 THEN acc
    ELSE fix_extra_qed_loop(fix_extra_qed_one(acc, ms[k], k), ms, k - 1)

fix_extra_qed(content) ==
    LET ms == problembox_matches(content, 1)
    IN  fix_extra_qed_loop([content |-> content, fixes |-> 0, seen |-> {}], ms, Len(ms))

\* The characters of before_importance[-50:] and of after_importance[:50]
LookBehind == 50
LookAhead  == 50

\* A piece at which the lookahead (?=\\textbf\{|\\begin\{|\\end\{|$) holds
IsBoundary(t) ==
    t \in {Strategy, Solution, Importance, OtherBold, BeginImp, EndImp, BeginPB, EndPB,
           SolutionHead}

\* The offset at which the match of importance_pattern starting with the
\* label at piece i ends: before the next boundary piece, at the end of sc,
\* or before a newline that ends sc ($ without re.MULTILINE)
importance_end(sc, i) ==
    LET S == {t \in (i + 1)..Len(sc) :
                 IsBoundary(sc[t]) \/ (t = Len(sc) /\ sc[t] = NL)}
    IN  IF S = {} THEN Len(sc) ELSE Min(S) - 1

\* re.finditer(importance_pattern, sc, re.DOTALL): the label pieces, in order
importance_matches(sc) ==
    LET S == {i \in 1..Len(sc) : sc[i] = Importance}
        Nth[n \in 1..Cardinality(S)] ==
            IF n = 1 THEN Min(S) ELSE Min({i \in S : i > Nth[n - 1]})
    IN  [n \in 1..Cardinality(S) |-> Nth[n]]

\* '\\begin{importance}' in before_importance[-50:]
begin_in_lookbehind(before_importance) ==
    \E k \in 1..Len(before_importance) :
        /\ before_importance[k] = BeginImp
        /\ CharLen(Slice(before_importance, k - 1, Len(before_importance)))
               <= LookBehind

\* '\\end{importance}' in after_importance[:50]
end_in_lookahead(after_importance) ==
    \E k \in 1..Len(after_importance) :
        /\ after_importance[k] = EndImp
        /\ CharLen(Slice(after_importance, 0, k)) <= LookAhead

\* A variant of fix_importance_one that wraps without looking for a wrapper
fix_importance_one_always(acc, match, k, sc, i) ==
    LET importance_end_ == importance_end(sc, i)
    IN  [content |-> Splice(acc.content, match.end + i - 1,
                            <<BeginImp, NL, Importance>>
                            \o Strip(Slice(sc, i, importance_end_))
                            \o <<NL, EndImp>>,
                            match.end + importance_end_),
         fixes   |-> acc.fixes + 1,
         seen    |-> acc.seen \cup {<<k, match.end + i>>}]

\* fix_importance_sections: the body of the inner loop for the label at
\* piece i of sc (sc is the text searched when the match was entered)
fix_importance_one(acc, match, k, sc, i) ==
    LET content == acc.content
        importance_start == i - 1
        importance_end_ == importance_end(sc, i)
        importance_content == Strip(Slice(sc, i, importance_end_))
        before_importance == Slice(sc, 0, importance_start)
        after_importance == Slice(sc, importance_end_, Len(sc))
        section_start_in_file == match.end + importance_start
        section_end_in_file == match.end + importance_end_
        wrapped_content == <<BeginImp, NL, Importance>> \o importance_content
                           \o <<NL, EndImp>>
        seen == acc.seen \cup {<<k, match.end + i>>}
    IN  IF /\ ~begin_in_lookbehind(before_importance)
           /\ ~end_in_lookahead(after_importance)
        THEN [content |-> Splice(content, section_start_in_file, wrapped_content,
                                 section_end_in_file),
              fixes   |-> acc.fixes + 1,
              seen    |-> seen]
        ELSE [acc EXCEPT !.seen = seen]

RECURSIVE fix_importance_inner(_, _, _, _, _, _)
fix_importance_inner(acc, match, k, sc, ims, n) ==
    IF n = 0 THEN acc
    ELSE fix_importance_inner(fix_importance_one(acc, match, k, sc, ims[n]),
                              match, k, sc, ims, n - 1)

RECURSIVE fix_importance_loop(_, _, _)
fix_importance_loop(acc, ms, k) ==
    IF k = 0 THEN acc
    ELSE LET sc == search_content(acc.content, ms[k].end)
             ims == importance_matches(sc)
         IN  fix_importance_loop(
                 fix_importance_inner(acc, ms[k], k, sc, ims, Len(ims)), ms, k - 1)

fix_importance_sections(content) ==
    LET ms == problembox_matches(content, 1)
    IN  fix_importance_loop([content |-> content, fixes |-> 0, seen |-> {}], ms, Len(ms))

-----------------------------------------------------------------------------
(* The chapter files.  files is the directory: the contents of its ch*.tex *)
(* files in the sorted order of find_chapter_files.  out is what the last  *)
(* operation returned or printed, with the directory it ran on (before);   *)
(* prev is the operation before it.                                        *)

NoOp == [op |-> "none"]

\* check_all_files with auto_fix = False
CheckAllFilesReport ==
    /\ out' = [op |-> "check_all_files", file |-> 0, before |-> files, ret |-> 0,
               report |-> report_of(files)]
    /\ prev' = out
    /\ UNCHANGED files

\* generate_detailed_report
GenerateDetailedReport ==
    /\ out' = [op |-> "generate_detailed_report", file |-> 0, before |-> files,
               ret |-> 0, detailed |-> detailed_of(files)]
    /\ prev' = out
    /\ UNCHANGED files

\* A pass writes the file only if fixes_applied > 0
written(content, res) == IF res.fixes > 0 THEN res.content ELSE content

\* One of the passes called on the file f
RunPass(name, f, res) ==
    /\ files' = [files EXCEPT ![f] = written(files[f], res)]
    /\ out' = [op |-> name, file |-> f, before |-> files, ret |-> res.fixes,
               wrote |-> res.fixes > 0, seen |-> res.seen]
    /\ prev' = out

FixMissingQed ==
    \E f \in 1..Len(files) : RunPass("fix_missing_qed", f, fix_missing_qed(files[f]))

FixExtraQed ==
    \E f \in 1..Len(files) : RunPass("fix_extra_qed", f, fix_extra_qed(files[f]))

FixImportanceSections ==
    \E f \in 1..Len(files) :
        RunPass("fix_importance_sections", f, fix_importance_sections(files[f]))

\* The three passes of fix mode on one file, each reading what the one
\* before it wrote
fix_file(content) ==
    LET missing == fix_missing_qed(content)
        c1 == written(content, missing)
        extra == fix_extra_qed(c1)
        c2 == written(c1, extra)
        importance == fix_importance_sections(c2)
        c3 == written(c2, importance)
    IN  [content |-> c3, missing_fixes |-> missing.fixes,
         extra_fixes |-> extra.fixes, importance_fixes |-> importance.fixes]

\* check_all_files with auto_fix = True
CheckAllFilesFix ==
    LET res == [f \in 1..Len(files) |-> fix_file(files[f])]
        fixed == {f \in 1..Len(files) :
                     \/ res[f].missing_fixes > 0
                     \/ res[f].extra_fixes > 0
                     \/ res[f].importance_fixes > 0}
    IN  /\ files' = [f \in 1..Len(files) |-> res[f].content]
        /\ out' = [op |-> "auto_fix", file |-> 0, before |-> files, ret |-> 0,
                   files_fixed |-> Cardinality(fixed),
                   total_missing_fixes |->
                       SumSeq([f \in 1..Len(files) |-> res[f].missing_fixes]),
                   total_extra_fixes |->
                       SumSeq([f \in 1..Len(files) |-> res[f].extra_fixes]),
                   total_importance_fixes |->
                       SumSeq([f \in 1..Len(files) |-> res[f].importance_fixes])]
        /\ prev' = out

-----------------------------------------------------------------------------
(* The directories checked.  Each specification starts from every          *)
(* directory of one family and runs the operations its claims are about.   *)

MaxBody    == 3
MaxWin     == 3
MaxFixWin  == 3
MaxQedTail == 4
MaxImpWin  == 4

\* all sequences over S of length at most n
SeqsUpTo(S, n) == UNION {[1..k -> S] : k \in 0..n}

\* a record with an empty body, and the text w after it
Record(t, w) == <<BeginPB, t, EndPB>> \o w

\* a label or not, a second label or not, one more piece or not
SmallWindows(P) ==
    {st \o so \o tail :
        st \in {<<>>, <<Strategy>>},
        so \in {<<>>, <<Solution>>},
        tail \in SeqsUpTo(P, 1)}

\* Two adjacent records (the second may be a begin marker without a title)
\* whose texts hold MaxBody pieces together
DocsAll ==
    LET P == {Strategy, Solution, Qed, Importance}
    IN  UNION {{Record("[A]", w1) \o h2 \o w2 :
                   h2 \in {<<BeginPB, "[B]", EndPB>>, <<BeginPB, EndPB>>},
                   w2 \in SeqsUpTo(P, MaxBody - Len(w1))} :
               w1 \in SeqsUpTo(P, MaxBody)}

\* Up to two records, the first possibly without its end marker or absent
DocsReport ==
    LET P == {Strategy, Solution, Qed, Text}
    IN  {h1 \o w1 \o h2 \o w2 :
            h1 \in {<<BeginPB, "[A]", EndPB>>, <<BeginPB, "[A]">>, <<>>},
            w1 \in SeqsUpTo(P, MaxWin),
            h2 \in {<<>>, <<BeginPB, "[B]", EndPB>>},
            w2 \in SmallWindows({Qed, Text})}

TinyDocs ==
    {<<>>, <<Text>>, Record("[A]", <<Strategy, Solution, Text, Qed>>),
     Record("[B]", <<Solution, Text>>)}

\* Two records, the second followed by any text of MaxFixWin pieces
DocsFix ==
    {Record("[A]", w1) \o Record("[B]", w2) :
        w1 \in SmallWindows({Qed, Text}),
        w2 \in SeqsUpTo({Strategy, Solution, Qed, Text, NL, Importance}, MaxFixWin)}

\* A record followed by closing markers, whole or in parts, and newlines
DocsQed ==
    {Record("[A]", pre \o so \o tail) \o rest :
        pre \in {<<>>, <<Qed>>},
        so \in {<<>>, <<Solution>>},
        tail \in SeqsUpTo({Qed, QedHead, QedTail, NL}, MaxQedTail),
        rest \in {<<>>, <<BeginPB>>, Record("[B]", <<Solution, QedHead>>),
                  Record("[B]", <<Solution, Qed, Qed>>)}}

\* A record followed by Importance remarks, wrapped or not
DocsImp ==
    {Record("[A]", w) \o rest :
        w \in SeqsUpTo({Importance, Text, LongText, BeginImp, EndImp, NL, Solution},
                       MaxImpWin),
        rest \in {<<>>, Record("[B]", <<Importance, Text, NL>>)}}

Start(D) == files \in D /\ out = NoOp /\ prev = NoOp

Init       == Start({<<d>> : d \in DocsAll})
InitReport == Start({<<>>} \cup {<<d>> : d \in DocsReport}
                    \cup {<<d1, d2>> : d1 \in TinyDocs, d2 \in TinyDocs})
InitFix    == Start({<<d>> : d \in DocsFix}
                    \cup {<<d1, d2>> : d1 \in TinyDocs, d2 \in TinyDocs})
InitQed    == Start({<<d>> : d \in DocsQed})
InitImp    == Start({<<d>> : d \in DocsImp})

Next ==
    \/ CheckAllFilesReport
    \/ GenerateDetailedReport
    \/ CheckAllFilesFix
    \/ FixMissingQed
    \/ FixExtraQed
    \/ FixImportanceSections

NextReport == CheckAllFilesReport \/ GenerateDetailedReport
NextFix    == CheckAllFilesFix \/ CheckAllFilesReport
NextQed    == FixMissingQed \/ FixExtraQed
NextImp    == FixImportanceSections
NextPasses == FixMissingQed \/ FixExtraQed \/ FixImportanceSections

Spec       == Init /\ [][Next]_vars
SpecReport == InitReport /\ [][NextReport]_vars
SpecFix    == InitFix /\ [][NextFix]_vars
SpecQed    == InitQed /\ [][NextQed]_vars
SpecImp    == InitImp /\ [][NextImp]_vars
SpecPasses == Init /\ [][NextPasses]_vars
SpecFixQed == InitQed /\ [][NextFix]_vars

\* Two records, the first followed by closing markers and a solution label
\* whole or in parts
DocsLabel ==
    {Record("[A]", w1) \o Record("[B]", w2) :
        w1 \in SeqsUpTo({SolutionHead, SolutionTail, Solution, Qed, Text}, MaxWin),
        w2 \in {<<>>, <<Solution, Text>>, <<Qed>>}}

InitLabel    == Start({<<d>> : d \in DocsLabel})
SpecFixLabel == InitLabel /\ [][NextFix]_vars

-----------------------------------------------------------------------------
(* Reads and writes that fail.  Every read and every write of a file is in *)
(* a try block: a pass whose read fails returns 0 before it does anything, *)
(* a pass whose write fails returns 0 after its edits in memory, and       *)
(* extract_problems returns no problems for a file it cannot read.  A      *)
(* write fails either in open(), which leaves the file as it was, or after *)
(* open(file, 'w') has truncated it, which leaves some start of the new    *)
(* text in the file.                                                       *)

MaxKept   == 0
MaxFiles  == 2

IOOk == [kind |-> "ok", keep |-> 0]

\* how the read and the write of one pass on one file end
IOOutcomes ==
    {IOOk, [kind |-> "read", keep |-> 0], [kind |-> "open", keep |-> 0]}
    \cup {[kind |-> "write", keep |-> n] : n \in 0..MaxKept}

\* A pass on a file holding content, res being what its loop makes of that
\* content: the file afterwards, the value returned, and whether the pass
\* went to write
run_pass(content, res, io) ==
    IF io.kind = "read" THEN [content |-> content, ret |-> 0, wrote |-> FALSE]
    ELSE IF res.fixes = 0 THEN [content |-> content, ret |-> 0, wrote |-> FALSE]
    ELSE IF io.kind = "ok" THEN [content |-> res.content, ret |-> res.fixes, wrote |-> TRUE]
    ELSE IF io.kind = "open" THEN [content |-> content, ret |-> 0, wrote |-> TRUE]
    ELSE [content |-> Slice(res.content, 0, Min({io.keep, Len(res.content)})),
          ret |-> 0, wrote |-> TRUE]

\* what fix mode keeps of the three passes on one file
fix_file_result(missing, extra, importance) ==
    [content |-> importance.content, missing_fixes |-> missing.ret,
     extra_fixes |-> extra.ret, importance_fixes |-> importance.ret]

\* fix_importance_sections on the file fix_extra_qed left
fix_file_importance(missing, extra, io) ==
    fix_file_result(missing, extra,
        run_pass(extra.content, fix_importance_sections(extra.content), io[3]))

\* fix_extra_qed on the file fix_missing_qed left, and the pass after it
fix_file_extra(missing, io) ==
    fix_file_importance(missing,
        run_pass(missing.content, fix_extra_qed(missing.content), io[2]), io)

\* The three passes of fix mode on one file, each reading what the one
\* before it left, io[p] being how the read and the write of the p-th end
fix_file_io(content, io) ==
    fix_file_extra(run_pass(content, fix_missing_qed(content), io[1]), io)

\* A variant of auto_fix_results that stops at the first file with a failure
auto_fix_results_aborting(fs, faults) ==
    [f \in 1..Len(fs) |->
        IF \E g \in 1..f : \E p \in 1..3 : faults[g][p] # IOOk
        THEN [content |-> fs[f], missing_fixes |-> 0, extra_fixes |-> 0,
              importance_fixes |-> 0]
        ELSE fix_file_io(fs[f], faults[f])]

\* The loop of fix mode over the chapter files
auto_fix_results(fs, faults) ==
    [f \in 1..Len(fs) |-> fix_file_io(fs[f], faults[f])]

\* what extract_problems reads of each file: nothing of one it cannot read
readable(fs, failed) == [f \in 1..Len(fs) |-> IF f \in failed THEN <<>> ELSE fs[f]]

\* The ways the reads and writes of a run of fix mode on n files end when
\* those of at most one file fail
FaultMaps(n) ==
    {[f \in 1..n |-> IF f = g THEN io ELSE [p \in 1..3 |-> IOOk]] :
        g \in 1..n, io \in [1..3 -> IOOutcomes]}

\* check_all_files with auto_fix = False, at most one file unreadable; it
\* runs on the directory as found or as one operation left it
CheckAllFilesReportIO ==
    /\ prev = NoOp
    /\ \E failed \in {{}} \cup {{f} : f \in 1..Len(files)} :
        /\ out' = [op |-> "check_all_files", file |-> 0, before |-> files,
                   ret |-> 0, failed |-> failed,
                   report |-> report_of(readable(files, failed))]
        /\ prev' = out
        /\ UNCHANGED files

\* what a run of fix mode prints, res being what its loop did to each file
auto_fix_out(before, faults, res) ==
    [op |-> "auto_fix", file |-> 0, before |-> before, ret |-> 0,
     faults |-> faults,
     per_file |-> [f \in 1..Len(res) |->
                      <<res[f].missing_fixes, res[f].extra_fixes,
                        res[f].importance_fixes>>],
     files_fixed |-> Cardinality({f \in 1..Len(res) :
                                     \/ res[f].missing_fixes > 0
                                     \/ res[f].extra_fixes > 0
                                     \/ res[f].importance_fixes > 0}),
     total_missing_fixes |-> SumSeq([f \in 1..Len(res) |-> res[f].missing_fixes]),
     total_extra_fixes |-> SumSeq([f \in 1..Len(res) |-> res[f].extra_fixes]),
     total_importance_fixes |->
         SumSeq([f \in 1..Len(res) |-> res[f].importance_fixes])]

\* the files a run of fix mode leaves
auto_fix_files(res) == [f \in 1..Len(res) |-> res[f].content]

\* check_all_files with auto_fix = True, some reads and writes of one file
\* failing; it runs on the directory as found
CheckAllFilesFixIO ==
    /\ out = NoOp
    /\ \E faults \in FaultMaps(Len(files)) :
           /\ files' = auto_fix_files(auto_fix_results(files, faults))
           /\ out' = auto_fix_out(files, faults, auto_fix_results(files, faults))
    /\ prev' = out

\* Files that give each pass something to do
DocsIO ==
    {Record("[B]", <<Solution, Text>>),
     Record("[A]", <<Solution, Qed, Qed>>),
     Record("[A]", <<Strategy, Solution, Text, Qed, Importance, Text>>),
     Record("[A]", <<Qed>>) \o Record("[B]", <<Solution, Text, Importance, Text>>)}

InitIO == Start(UNION {[1..n -> DocsIO] : n \in 1..MaxFiles})
NextIO == CheckAllFilesReportIO \/ CheckAllFilesFixIO
SpecIO == InitIO /\ [][NextIO]_vars

-----------------------------------------------------------------------------
(* A pass step by step: it reads the file and finds the matches, takes the *)
(* matches one by one on the content in memory, and then writes.  While a  *)
(* pass runs, out holds the matches found at the start (ms), the order in  *)
(* which they are taken, the count i of those taken so far, the content,   *)
(* fixes_applied and the offsets searched (acc), and the count of the      *)
(* edits made to the content.                                              *)

\* A variant of reversed that takes the matches first to last
in_order(ms) == [i \in 1..Len(ms) |-> i]

\* reversed(problembox_matches): the indices of the matches, last to first
reversed(ms) == [i \in 1..Len(ms) |-> Len(ms) + 1 - i]

\* fix_importance_sections: the body of the outer loop for one match
fix_importance_record(acc, match, k) ==
    LET sc == search_content(acc.content, match.end)
        ims == importance_matches(sc)
    IN  fix_importance_inner(acc, match, k, sc, ims, Len(ims))

\* A variant of loop_body whose fix_extra_qed removes the closing markers
\* of a record without a solution and does not count them
loop_body_uncounted(name, acc, match, k) ==
    IF name = "fix_missing_qed" THEN fix_missing_qed_one(acc, match, k)
    ELSE IF name = "fix_extra_qed"
         THEN IF Search(Solution, search_content(acc.content, match.end)) = 0
              THEN [fix_extra_qed_one(acc, match, k) EXCEPT !.fixes = acc.fixes]
              ELSE fix_extra_qed_one(acc, match, k)
    ELSE fix_importance_record(acc, match, k)

\* the body of the loop of the pass called name for one match
loop_body(name, acc, match, k) ==
    IF name = "fix_missing_qed" THEN fix_missing_qed_one(acc, match, k)
    ELSE IF name = "fix_extra_qed" THEN fix_extra_qed_one(acc, match, k)
    ELSE fix_importance_record(acc, match, k)

InPass == out.op \in {"fix_missing_qed", "fix_extra_qed", "fix_importance_sections"}

\* A pass is called on the file f and reads it, or fails to
PassRead ==
    /\ IF out.op = "none" THEN TRUE ELSE out.pc = "done"
    /\ \E name \in {"fix_missing_qed", "fix_extra_qed", "fix_importance_sections"},
          f \in 1..Len(files), read_ok \in BOOLEAN :
          LET ms == problembox_matches(files[f], 1)
          IN  out' = [op |-> name, file |-> f, before |-> files,
                      pc |-> IF read_ok THEN "loop" ELSE "done",
                      ms |-> IF read_ok THEN ms ELSE <<>>,
                      order |-> IF read_ok THEN reversed(ms) ELSE <<>>,
                      i |-> 0,
                      acc |-> [content |-> IF read_ok THEN files[f] ELSE <<>>,
                               fixes |-> 0, seen |-> {}],
                      edits |-> 0, ret |-> 0, wrote |-> FALSE,
                      io |-> IF read_ok THEN IOOk ELSE [kind |-> "read", keep |-> 0]]
    /\ prev' = out
    /\ UNCHANGED files

\* The pass takes the next match
PassRecord ==
    /\ InPass /\ out.pc = "loop" /\ out.i < Len(out.order)
    /\ LET k == out.order[out.i + 1]
           acc == loop_body(out.op, out.acc, out.ms[k], k)
       IN  out' = [out EXCEPT !.i = @ + 1, !.acc = acc,
                              !.edits = @ + (IF acc.content # out.acc.content
                                             THEN 1 ELSE 0)]
    /\ UNCHANGED <<files, prev>>

\* The loop is over: the pass writes if fixes_applied > 0, and returns
PassWrite ==
    /\ InPass /\ out.pc = "loop" /\ out.i = Len(out.order)
    /\ \E io \in IOOutcomes \ {[kind |-> "read", keep |-> 0]} :
          LET r == run_pass(files[out.file], out.acc, io)
          IN  /\ files' = [files EXCEPT ![out.file] = r.content]
              /\ out' = [out EXCEPT !.pc = "done", !.ret = r.ret,
                                    !.wrote = r.wrote,
                                    !.io = IF r.wrote THEN io ELSE IOOk]
    /\ UNCHANGED prev

InitSteps == Start({<<d>> : d \in DocsAll})
NextSteps == PassRead \/ PassRecord \/ PassWrite
SpecSteps == InitSteps /\ [][NextSteps]_vars

-----------------------------------------------------------------------------
(* What the claims speak of.                                               *)

Passes == {"fix_missing_qed", "fix_extra_qed", "fix_importance_sections"}

Matches(content) == problembox_matches(content, 1)

\* the text searched for the k-th record of content
WindowOf(content, k) == search_content(content, Matches(content)[k].end)

\* the issues check_file reports for the k-th record of content, given the
\* entries it returned (records without issues have no entry)
ReportedIssues(entries, content, k) ==
    LET ps == extract_problems(content)
        n == Cardinality({j \in 1..k : issues_of(ps[j]) # <<>>})
    IN  IF issues_of(ps[k]) = <<>> THEN <<>> ELSE entries[n].issues

\* R1 has a strategy label, a solution label and one closing marker after
\* it; R2 has a solution label, no strategy and no closing marker
TwoRecordScenario(content) ==
    LET ps == extract_problems(content)
    IN  /\ Len(ps) = 2
        /\ ps[1].has_strategy /\ ps[1].has_solution /\ ps[1].qed_count = 1
        /\ ps[2].has_solution /\ ~ps[2].has_strategy
        /\ qed_matches(WindowOf(content, 2)) = <<>>

ReportRan == out.op = "check_all_files"

-----------------------------------------------------------------------------
(* C1: for a file of two records, R1 complete and R2 with a solution but   *)
(* neither strategy nor closing marker, report mode counts 2 records, 2    *)
(* issues (Missing Strategy and Missing \qed, both for R2) and 1 complete  *)
(* record.                                                                 *)
C1_ReportCountsTwoIssues ==
    (ReportRan /\ Len(files) = 1 /\ TwoRecordScenario(files[1])) =>
        /\ detailed_of(files).total_problems = 2
        /\ detailed_of(files).complete_problems = 1
        /\ out.report.total_issues = 2
        /\ Len(out.report.file_issues[1]) = 1
        /\ out.report.file_issues[1][1].issues = <<MissingStrategy, MissingQed>>

(* C3: a record with a strategy label, a solution label and no closing     *)
(* marker after the solution label is reported with exactly one issue,     *)
(* Missing \qed.                                                           *)
C3_OnlyMissingQed ==
    ReportRan =>
        \A f \in 1..Len(files) : \A k \in 1..Len(extract_problems(files[f])) :
            LET p == extract_problems(files[f])[k]
            IN  (p.has_strategy /\ p.has_solution /\ p.qed_count = 0) =>
                    ReportedIssues(out.report.file_issues[f], files[f], k)
                        = <<MissingQed>>

\* a record without a solution label whose text holds one closing marker
OneQedNoSolution(content, k) ==
    /\ ~extract_problems(content)[k].has_solution
    /\ Len(qed_matches(WindowOf(content, k))) = 1

(* C4, as stated: a record with one closing marker and no solution label   *)
(* is reported with exactly one issue, \qed without Solution (1 found).    *)
C4_OnlyQedWithoutSolution ==
    ReportRan =>
        \A f \in 1..Len(files) : \A k \in 1..Len(extract_problems(files[f])) :
            OneQedNoSolution(files[f], k) =>
                ReportedIssues(out.report.file_issues[f], files[f], k)
                    = <<QedWithoutSolution(1)>>

(* C4, amended: such a record is reported with Missing Solution followed   *)
(* by \qed without Solution (1 found), after Missing Strategy when it has  *)
(* no strategy label either, and with nothing else.                        *)
C4_QedWithoutSolutionAfterMissingSolution ==
    ReportRan =>
        \A f \in 1..Len(files) : \A k \in 1..Len(extract_problems(files[f])) :
            OneQedNoSolution(files[f], k) =>
                ReportedIssues(out.report.file_issues[f], files[f], k)
                    = (IF extract_problems(files[f])[k].has_strategy
                       THEN <<>> ELSE <<MissingStrategy>>)
                      \o <<MissingSolution, QedWithoutSolution(1)>>

C4_Witness ==
    /\ ReportRan
    /\ Len(files) = 1
    /\ Len(extract_problems(files[1])) = 2
    /\ OneQedNoSolution(files[1], 1)
    /\ extract_problems(files[1])[1].has_strategy
    /\ out.report.file_issues[1][1].issues
           = <<MissingSolution, QedWithoutSolution(1)>>

(* C9: when the chapter files hold no record at all, the detailed report   *)
(* finishes: its percentage does not divide by a zero total.               *)
C9_DetailedReportGuardsZeroTotal ==
    (/\ out.op = "generate_detailed_report"
     /\ files # <<>>
     /\ out.detailed.total_problems = 0) =>
        out.detailed.result = "printed"

\* a begin marker with a title at piece i
TitledBegin(content, i) ==
    i + 1 <= Len(content) /\ content[i] = BeginPB /\ content[i + 1] \in Titles

\* the titled begin marker at i has no end marker before the titled begin
\* marker at j, which has one after it
Unterminated(content, i, j) ==
    /\ i < j
    /\ TitledBegin(content, i) /\ TitledBegin(content, j)
    /\ \A k \in i..j : content[k] # EndPB
    /\ \E k \in j..Len(content) : content[k] = EndPB

(* C10: a titled begin marker with no end marker of its own before the     *)
(* next record's begin marker yields no record, and the record after it    *)
(* is extracted with its own title.                                        *)
C10_UnterminatedRecordIsSkipped ==
    ReportRan =>
        \A f \in 1..Len(files) : \A i, j \in 1..Len(files[f]) :
            Unterminated(files[f], i, j) =>
                /\ \A k \in 1..Len(Matches(files[f])) :
                       Matches(files[f])[k].start # i
                /\ \E k \in 1..Len(Matches(files[f])) :
                       /\ Matches(files[f])[k].start = j
                       /\ extract_problems(files[f])[k].title
                              = TitleOf(files[f][j + 1])

-----------------------------------------------------------------------------
\* R2 of the scenario also has text after its solution label
FixScenario(content) ==
    /\ TwoRecordScenario(content)
    /\ LET w == WindowOf(content, 2)
       IN  RStrip(Slice(w, Search(Solution, w), Len(w))) # <<>>

\* the report just made is of the directory fix mode left behind, and fix
\* mode ran on one file holding the scenario
ReportAfterFixOfScenario ==
    /\ ReportRan
    /\ prev.op = "auto_fix"
    /\ Len(prev.before) = 1
    /\ FixScenario(prev.before[1])

\* content with a closing marker put right after the trimmed text that
\* follows the solution label of its k-th record
WithQedAfterSolutionText(content, k) ==
    LET w == WindowOf(content, k)
        at == Matches(content)[k].end + Search(Solution, w)
              + Len(RStrip(Slice(w, Search(Solution, w), Len(w))))
    IN  Slice(content, 0, at) \o <<Qed>> \o Slice(content, at, Len(content))

(* C2: fix mode on the two-record scenario (R2 with text after its         *)
(* solution label) adds one closing marker, in R2's text right after the   *)
(* solution text, and the report that follows counts one issue, Missing    *)
(* Strategy for R2.                                                        *)
C2_ReportAfterFixCountsOneIssue ==
    ReportAfterFixOfScenario =>
        /\ prev.total_missing_fixes = 1
        /\ prev.total_extra_fixes = 0
        /\ prev.total_importance_fixes = 0 =>
               files[1] = WithQedAfterSolutionText(prev.before[1], 2)
        /\ extract_problems(files[1])[2].qed_count = 1
        /\ out.report.total_issues = 1
        /\ out.report.file_issues
               = << <<[problem |-> "B", issues |-> <<MissingStrategy>>]>> >>

C2_Witness ==
    /\ ReportAfterFixOfScenario
    /\ files[1] # prev.before[1]
    /\ \E i \in 1..Len(prev.before[1]) : prev.before[1][i] = NL

-----------------------------------------------------------------------------
\* the pass just run is the second of two runs of it on the same file
RanTwice(pass) ==
    /\ out.op = pass
    /\ prev.op = pass
    /\ out.file = prev.file

(* C5: a second run of fix_missing_qed right after a first leaves the      *)
(* file as the first run left it, applies no edit (returns 0) and does     *)
(* not write.                                                              *)
C5_FixMissingQedIdempotent ==
    RanTwice("fix_missing_qed") =>
        /\ out.ret = 0
        /\ ~out.wrote
        /\ files = out.before

C5_Witness ==
    /\ RanTwice("fix_missing_qed")
    /\ prev.ret > 0
    /\ out.ret = 0

(* C6: for a record whose solution label is followed by n > 1 closing      *)
(* markers, fix_extra_qed leaves exactly one closing marker after the      *)
(* solution label, where the first one was, and removes n - 1.             *)
C6_CollapseLeavesOne ==
    out.op = "fix_extra_qed" =>
        \A k \in 1..Len(extract_problems(out.before[out.file])) :
            extract_problems(out.before[out.file])[k].qed_count > 1 =>
                LET old == WindowOf(out.before[out.file], k)
                    new == WindowOf(files[out.file], k)
                    oldqs == qed_matches(Slice(old, Search(Solution, old), Len(old)))
                    newqs == qed_matches(Slice(new, Search(Solution, new), Len(new)))
                IN  /\ Search(Solution, new) = Search(Solution, old)
                    /\ Len(newqs) = 1
                    /\ newqs[1] = oldqs[1]
                    /\ Len(extract_problems(out.before[out.file])) = 1 =>
                           out.ret = Len(oldqs) - 1

-----------------------------------------------------------------------------
\* offset p lies after the end marker of the k-th of the matches ms and
\* before the begin marker of the next
InOwnWindow(ms, k, p) ==
    /\ p > ms[k].end
    /\ k < Len(ms) => p < ms[k + 1].start

(* C7: whatever extract_problems and the three passes find for a record -  *)
(* strategy label, solution label, closing markers, Importance labels -    *)
(* lies after that record's end marker and before the begin marker of the  *)
(* next record.                                                            *)
C7_SearchStaysInOwnWindow ==
    /\ \A f \in 1..Len(files) : \A k \in 1..Len(Matches(files[f])) :
           \A p \in attributed(files[f], Matches(files[f])[k]) :
               InOwnWindow(Matches(files[f]), k, p)
    /\ out.op \in Passes =>
           \A kp \in out.seen :
               InOwnWindow(Matches(out.before[out.file]), kp[1], kp[2])

C7_Witness ==
    /\ out.op \in Passes
    /\ Len(Matches(out.before[1])) = 2
    /\ \E p \in 1..Len(out.before[1]) : <<1, p>> \in out.seen
    /\ \E p \in 1..Len(out.before[1]) : <<2, p>> \in out.seen
    /\ attributed(files[1], Matches(files[1])[1]) # {}
    /\ attributed(files[1], Matches(files[1])[2]) # {}

-----------------------------------------------------------------------------
(* C8: a second run of fix_importance_sections on what the first run       *)
(* wrote wraps nothing: it returns 0 and leaves the file as it was.        *)
C8_FixImportanceIdempotent ==
    RanTwice("fix_importance_sections") =>
        /\ out.ret = 0
        /\ ~out.wrote
        /\ files = out.before

C8_Witness ==
    /\ RanTwice("fix_importance_sections")
    /\ prev.ret > 0
    /\ out.ret = 0

-----------------------------------------------------------------------------
\* the file f of the run of fix mode just made had no failure
Unfailing(f) == \A p \in 1..3 : out.faults[f][p] = IOOk

(* C12: a read or write failure on one file stays in that file.  In report *)
(* mode every file is counted as checked and every readable file gets the  *)
(* issues check_file finds in it; in fix mode every file without a failure *)
(* is left as the three passes leave it, with their counts, wherever it    *)
(* stands in the order; and a pass whose write fails returns 0.            *)
C12_FailureStaysInItsFile ==
    /\ out.op = "check_all_files" =>
           /\ out.report.files_checked = Len(files)
           /\ \A g \in 1..Len(files) :
                  g \notin out.failed =>
                      out.report.file_issues[g] = check_file(files[g])
    /\ out.op = "auto_fix" =>
           \A f \in 1..Len(files) :
               /\ Unfailing(f) =>
                      /\ files[f] = fix_file(out.before[f]).content
                      /\ out.per_file[f]
                             = <<fix_file(out.before[f]).missing_fixes,
                                 fix_file(out.before[f]).extra_fixes,
                                 fix_file(out.before[f]).importance_fixes>>
               /\ \A p \in 1..3 :
                      out.faults[f][p].kind \in {"open", "write"} =>
                          out.per_file[f][p] = 0

\* the first pass on the first file made an edit and failed to write it,
\* and the file after it was fixed
C12_Witness ==
    /\ out.op = "auto_fix"
    /\ Len(files) = 2
    /\ out.faults[1][1].kind = "write"
    /\ fix_missing_qed(out.before[1]).fixes > 0
    /\ out.per_file[1][1] = 0
    /\ files[1] # out.before[1]
    /\ Unfailing(2)
    /\ files[2] # out.before[2]
    /\ out.per_file[2][1] > 0

-----------------------------------------------------------------------------
\* a pass has returned
PassDone == InPass /\ out.pc = "done"

(* C11: a pass goes to write the file exactly when it has made at least    *)
(* one edit to the content in memory; a pass that made none does not       *)
(* write and leaves the file as it was, and a write that succeeds puts the *)
(* edited content in the file.                                             *)
C11_WritesExactlyWhenEdited ==
    PassDone =>
        /\ out.wrote <=> out.edits > 0
        /\ out.edits = 0 => files = out.before /\ out.ret = 0
        /\ (out.wrote /\ out.io = IOOk) =>
               /\ files[out.file] = out.acc.content
               /\ files[out.file] # out.before[out.file]

\* each pass has written after an edit, here fix_extra_qed after removing
\* the closing marker of a record without a solution
C11_Witness ==
    /\ PassDone
    /\ out.op = "fix_extra_qed"
    /\ out.wrote /\ out.io = IOOk
    /\ out.edits > 0
    /\ \E k \in 1..Len(out.ms) :
           Search(Solution, search_content(out.before[out.file], out.ms[k].end)) = 0
    /\ prev.op = "fix_missing_qed" /\ prev.pc = "done" /\ prev.edits = 0 /\ ~prev.wrote

-----------------------------------------------------------------------------
\* the first n pieces of s
Prefix(s, n) == Slice(s, 0, Min({n, Len(s)}))

\* a pass is about to take a match
TakingMatch == InPass /\ out.pc = "loop" /\ out.i < Len(out.order)

(* C13: a pass takes the matches last to first, and when it takes a match  *)
(* the content up to the begin marker of the next match is the text read,  *)
(* so every edit made so far lies at or after that begin marker, the end   *)
(* marker of the match is where its offset says, and the text searched for *)
(* the match is the text of the file read.                                 *)
C13_OffsetsStayValid ==
    TakingMatch =>
        LET orig == out.before[out.file]
            k == out.order[out.i + 1]
            next_begin == IF k < Len(out.ms) THEN out.ms[k + 1].start
                          ELSE Len(orig) + 1
        IN  /\ k = Len(out.ms) - out.i
            /\ Prefix(out.acc.content, next_begin - 1) = Prefix(orig, next_begin - 1)
            /\ out.acc.content[out.ms[k].end] = EndPB
            /\ search_content(out.acc.content, out.ms[k].end)
                   = search_content(orig, out.ms[k].end)

\* the pass has edited the text of the last match and is about to take the
\* first, whose text it will edit too
C13_Witness ==
    /\ TakingMatch
    /\ out.i = 1 /\ Len(out.ms) = 2
    /\ out.edits = 1
    /\ out.acc.content # out.before[out.file]
    /\ loop_body(out.op, out.acc, out.ms[1], 1).content # out.acc.content

-----------------------------------------------------------------------------
\* the text after the solution label of the k-th record of content
AfterSolution(content, k) ==
    LET w == WindowOf(content, k)
    IN  Slice(w, Search(Solution, w), Len(w))

\* fix mode has just run
FixRan == out.op = "auto_fix"

(* C14: after fix mode no record has more than one closing marker after    *)
(* its solution label, none has a closing marker without a solution label, *)
(* a record with a solution label and no closing marker has only           *)
(* whitespace after the label, and a second run of fix mode right after    *)
(* the first applies no edit.                                              *)
C14_FixModeSettles ==
    FixRan =>
        /\ \A f \in 1..Len(files) : \A k \in 1..Len(extract_problems(files[f])) :
               LET p == extract_problems(files[f])[k]
               IN  /\ p.qed_count <= 1
                   /\ ~p.has_solution => qed_matches(WindowOf(files[f], k)) = <<>>
                   /\ (p.has_solution /\ p.qed_count = 0) =>
                          Strip(AfterSolution(files[f], k)) = <<>>
        /\ prev.op = "auto_fix" =>
               /\ files = out.before
               /\ out.files_fixed = 0
               /\ out.total_missing_fixes + out.total_extra_fixes
                      + out.total_importance_fixes = 0

-----------------------------------------------------------------------------
(* C15: fix mode leaves the text up to the end marker of the first record  *)
(* and the text of every record from its begin marker to its end marker    *)
(* as they were, and with them the number, the order and the titles of     *)
(* the records and whether each has a strategy label and a solution label. *)
C15_FixingKeepsRecords ==
    FixRan =>
        \A f \in 1..Len(files) :
            LET old == out.before[f]
                new == files[f]
                mo == Matches(old)
                mn == Matches(new)
            IN  /\ Len(mn) = Len(mo)
                /\ mo # <<>> => Prefix(new, mo[1].end) = Prefix(old, mo[1].end)
                /\ \A k \in 1..Min({Len(mo), Len(mn)}) :
                       /\ Slice(new, mn[k].start - 1, mn[k].end)
                              = Slice(old, mo[k].start - 1, mo[k].end)
                       /\ extract_problems(new)[k].title = extract_problems(old)[k].title
                       /\ extract_problems(new)[k].has_strategy
                              = extract_problems(old)[k].has_strategy
                       /\ extract_problems(new)[k].has_solution
                              = extract_problems(old)[k].has_solution

====
